---- MODULE Spec2Model ----
(***************************************************************************)
(* Model of src/app/live/page.tsx: the live page's transcript (messages),  *)
(* the two effects that upsert the current user / bot message into it, the *)
(* derived views of MessageItem and the VideoPlayer recorder/timer.        *)
(***************************************************************************)
EXTENDS Integers, Sequences, FiniteSets, TLC

\* ------------------------------------------------------------------ bounds
\* longest frame sequence carried by a RealtimeInput snapshot of the streams
MaxFrames == 3
\* most animation-frame callbacks pending at once
MaxRaf == 2
\* most recorder runs started in one behaviour
MaxRuns == 2
\* longest chunk / part list of the messages handed to one MessageItem
MaxParts == 2
\* longest scripted stream
MaxScript == 2

\* ------------------------------------------------------- program constants
\* VideoPlayer's default props (interval = 2000, frameRate = 10)
DefaultInterval == 2000
DefaultFrameRate == 10
\* audioComponent's rate: initial value, and the value for realtime input
RateInitial == 2400
RateRealtime == 1600

\* ------------------------------------------------------------ message model
\* MessageType's null
Null == [null |-> TRUE]

\* a property read that yields undefined
Undefined == "undefined"

\* the value of a property that is present and set to undefined
UndefinedValue == [undefined |-> TRUE]

\* the TypeError raised by reading a property of undefined
TypeError == [throws |-> "TypeError"]

JpegMime == "image/jpeg"
Pcm16Mime == "audio/pcm;rate=16000"
Pcm24Mime == "audio/pcm;rate=24000"

\* payloads of the frames a stream snapshot can carry, in order
FrameData == <<"f1", "f2", "f3", "f4", "f5", "f6">>

\* a JPEG media chunk {mimeType, data}
JpegChunk(i) == [mimeType |-> JpegMime, data |-> FrameData[i]]

RealtimeInput(id, chunks) ==
    [id |-> id, realtimeInput |-> [mediaChunks |-> chunks]]

ClientContent(id, parts) ==
    [id |-> id, clientContent |-> [turns |-> <<[parts |-> parts]>>]]

ServerContent(id, parts) ==
    [id |-> id, serverContent |-> [modelTurn |-> [parts |-> parts]]]

\* ------------------------------------------------------------- classifiers
isClientMessage(message) ==
    message # Null /\ "clientContent" \in DOMAIN message

isRealtimeInputMessage(message) ==
    message # Null /\ "realtimeInput" \in DOMAIN message

isServerMessage(message) ==
    message # Null /\ "serverContent" \in DOMAIN message

hasModelTurn(content) ==
    "modelTurn" \in DOMAIN content /\ content.modelTurn # Null

\* m?.id
IdOf(m) == IF m = Null \/ "id" \notin DOMAIN m THEN Undefined ELSE m.id

\* d is truthy as a string (present and non-empty)
Truthy(r, f) == f \in DOMAIN r /\ r[f] # ""

\* ------------------------------------------------------ MessageItem's views
\* Array.prototype.join(''): undefined elements join as the empty string
RECURSIVE Join(_)
Join(texts) ==
    IF texts = <<>> THEN ""
    ELSE (IF Head(texts) = Undefined THEN "" ELSE Head(texts)) \o Join(Tail(texts))

\* p.text (undefined when the part has no text field)
TextOf(p) == IF "text" \in DOMAIN p THEN p.text ELSE Undefined

\* a client branch that joins the texts of the first turn back to front
ClientTextReversed(message) ==
    LET cc == message.clientContent
    IN  IF "turns" \notin DOMAIN cc \/ cc.turns = <<>> THEN Undefined
        ELSE LET n == Len(cc.turns[1].parts)
             IN  Join([i \in 1..n |-> TextOf(cc.turns[1].parts[n + 1 - i])])

\* the client branch's content: turns?.[0]?.parts.map(p => p.text).join('')
ClientText(message) ==
    LET cc == message.clientContent
    IN  IF "turns" \notin DOMAIN cc \/ cc.turns = <<>> THEN Undefined
        ELSE Join([i \in 1..Len(cc.turns[1].parts) |-> TextOf(cc.turns[1].parts[i])])

\* the server branch's content: parts.map(p => p?.text ?? '').join('')
ServerText(message) ==
    LET parts == message.serverContent.modelTurn.parts
    IN  Join([i \in 1..Len(parts) |->
                IF TextOf(parts[i]) = Undefined THEN "" ELSE TextOf(parts[i])])

\* a textComponent whose server branch shows a Bubble only for content
textComponentNoLoading(message) ==
    IF isClientMessage(message)
    THEN LET content == ClientText(message)
         IN  IF content # Undefined /\ content # ""
             THEN [key |-> IdOf(message), placement |-> "end",
                   loading |-> FALSE, content |-> content]
             ELSE Null
    ELSE IF isServerMessage(message) /\ hasModelTurn(message.serverContent)
    THEN LET content == ServerText(message)
         IN  IF content # ""
             THEN [key |-> IdOf(message), placement |-> "start",
                   loading |-> FALSE, content |-> content]
             ELSE Null
    ELSE Null

\* useMemo of textComponent: a Bubble, or null
textComponent(message) ==
    IF isClientMessage(message)
    THEN LET content == ClientText(message)
         IN  IF content # Undefined /\ content # ""
             THEN [key |-> IdOf(message), placement |-> "end",
                   loading |-> FALSE, content |-> content]
             ELSE Null
    ELSE IF isServerMessage(message) /\ hasModelTurn(message.serverContent)
    THEN LET content == ServerText(message)
             loading == Len(message.serverContent.modelTurn.parts) = 0
         IN  IF loading \/ content # ""
             THEN [key |-> IdOf(message), placement |-> "start",
                   loading |-> loading, content |-> content]
             ELSE Null
    ELSE Null

\* the data URL the video memo builds from a chunk
DataUrl(c) == "data:image/jpeg;base64, " \o c.data

\* base64s that keeps every JPEG chunk, with data or without
VideoImagesAnyData(message) ==
    IF isRealtimeInputMessage(message)
    THEN LET sel == SelectSeq(message.realtimeInput.mediaChunks,
                      LAMBDA c : "mimeType" \in DOMAIN c /\ c.mimeType = JpegMime
                                 /\ "data" \in DOMAIN c)
         IN  [i \in 1..Len(sel) |-> DataUrl(sel[i])]
    ELSE <<>>

\* base64s of videoComponent: the JPEG chunks with data, as data URLs
VideoImages(message) ==
    IF isRealtimeInputMessage(message)
    THEN LET sel == SelectSeq(message.realtimeInput.mediaChunks,
                      LAMBDA c : "mimeType" \in DOMAIN c /\ c.mimeType = JpegMime
                                 /\ Truthy(c, "data"))
         IN  [i \in 1..Len(sel) |-> DataUrl(sel[i])]
    ELSE <<>>

\* useMemo of videoComponent: a Bubble holding <VideoPlayer images=...>, or null
videoComponent(message) ==
    IF Len(VideoImages(message)) > 0
    THEN [key |-> "video-" \o IdOf(message),
          placement |-> IF isClientMessage(message) THEN "end" ELSE "start",
          images |-> VideoImages(message),
          interval |-> DefaultInterval, frameRate |-> DefaultFrameRate]
    ELSE Null

\* p.inlineData?.mimeType == mime && p.inlineData?.data
InlineMatches(p, mime) ==
    /\ "inlineData" \in DOMAIN p
    /\ "mimeType" \in DOMAIN p.inlineData
    /\ p.inlineData.mimeType = mime
    /\ Truthy(p.inlineData, "data")

\* audioComponent's rate when the blob is built
AudioRate(message) ==
    IF isRealtimeInputMessage(message) THEN RateRealtime ELSE RateInitial

\* base64s whose server branch selects on the MIME type alone
AudioBase64sAnyData(message) ==
    LET fromInput ==
            IF isRealtimeInputMessage(message)
            THEN LET sel == SelectSeq(message.realtimeInput.mediaChunks,
                              LAMBDA c : "mimeType" \in DOMAIN c
                                         /\ c.mimeType = Pcm16Mime
                                         /\ Truthy(c, "data"))
                 IN  [i \in 1..Len(sel) |-> sel[i].data]
            ELSE <<>>
    IN  IF isServerMessage(message) /\ hasModelTurn(message.serverContent)
        THEN LET sel == SelectSeq(message.serverContent.modelTurn.parts,
                          LAMBDA p : /\ "inlineData" \in DOMAIN p
                                     /\ p.inlineData.mimeType = Pcm24Mime)
             IN  [i \in 1..Len(sel) |-> sel[i].inlineData.data]
        ELSE fromInput

\* audioComponent's base64s after the two branches
AudioBase64s(message) ==
    LET fromInput ==
            IF isRealtimeInputMessage(message)
            THEN LET sel == SelectSeq(message.realtimeInput.mediaChunks,
                              LAMBDA c : "mimeType" \in DOMAIN c
                                         /\ c.mimeType = Pcm16Mime
                                         /\ Truthy(c, "data"))
                 IN  [i \in 1..Len(sel) |-> sel[i].data]
            ELSE <<>>
    IN  IF isServerMessage(message) /\ hasModelTurn(message.serverContent)
        THEN LET sel == SelectSeq(message.serverContent.modelTurn.parts,
                          LAMBDA p : InlineMatches(p, Pcm24Mime))
             IN  [i \in 1..Len(sel) |-> sel[i].inlineData.data]
        ELSE fromInput

\* useMemo of audioComponent: a Bubble holding the blob built by
\* pcmBufferToBlob(base64sToArrayBuffer(base64s), rate), or null
audioComponent(message) ==
    IF Len(AudioBase64s(message)) > 0
    THEN [key |-> "audio-" \o IdOf(message),
          placement |-> IF isClientMessage(message) THEN "end" ELSE "start",
          base64s |-> AudioBase64s(message),
          rate |-> AudioRate(message)]
    ELSE Null

\* ------------------------------------------------------------------- state
VARIABLES
    messages,            \* LivePage's transcript state
    currentUserMessage,  \* the context's current user message (or null)
    currentBotMessage,   \* the context's current bot message (or null)
    rafQueue,            \* pending requestAnimationFrame callbacks, each the
                         \* bot snapshot its closure captured
    players,             \* per message id: the VideoPlayer instance of its item
    runs,                \* every recorder run started (closures of the effect)
    firstApplied,        \* history: ids in the order they were first upserted
    lastApplied,         \* history: per id, the snapshot upserted last
    latest,              \* history: per id, the snapshot last observed and the
                         \* streams that carried the id
    streams,             \* the two scripted streams (scripted runs only)
    pos,                 \* how far each scripted stream has been observed
    item                 \* one MessageItem and its three memoised views

vars == <<messages, currentUserMessage, currentBotMessage, rafQueue, players,
          runs, firstApplied, lastApplied, latest, streams, pos, item>>

\* ids the two streams use; "m2" is carried by both
UserIds == {"m1", "m2"}
BotIds == {"m2", "m3"}
AllIds == UserIds \cup BotIds

\* the first n frames as media chunks
Frames(n) == [i \in 1..n |-> JpegChunk(i)]

\* a microphone chunk
AudioChunk == [mimeType |-> Pcm16Mime, data |-> "a1"]

\* user snapshots without camera frames: typed text, or microphone audio
UserSnapshots ==
    {ClientContent(id, <<[text |-> "hi"]>>) : id \in UserIds}
    \cup {RealtimeInput(id, <<AudioChunk>>) : id \in UserIds}

\* bot snapshots: a pending turn, or a turn with text
BotSnapshots ==
    {ServerContent(id, <<>>) : id \in BotIds}
    \cup {ServerContent(id, <<[text |-> "ok"]>>) : id \in BotIds}

\* user snapshots of one message while the camera is on: typed text, or the
\* frames captured so far
CameraSnapshots ==
    {ClientContent("m1", <<[text |-> "hi"]>>)}
    \cup {RealtimeInput("m1", Frames(n)) : n \in 1..MaxFrames}

\* the bot's pending turn meanwhile
CameraBotSnapshots == {ServerContent("m3", <<>>)}

\* ------------------------------------------------------------- VideoPlayer
\* useRef(null) / useState(null) of a VideoPlayer that is not mounted
NoPlayer(inst) ==
    [mounted |-> FALSE, inst |-> inst, recorderRef |-> 0,
     video |-> 0, poster |-> Undefined]

\* the run's position in the pipeline of the design, read off the closure
Phase(run) ==
    IF run.recorder = "stopped" THEN "Complete"
    ELSE IF run.recorder = "stopping" THEN "Finalizing"
    ELSE IF run.currentImageIndex >= Len(run.images) THEN "Draining"
    ELSE "Encoding"

\* run with its phase history brought up to date
Logged(run) ==
    IF run.phases[Len(run.phases)] = Phase(run) THEN run
    ELSE [run EXCEPT !.phases = Append(@, Phase(run))]

\* the effect's guard: canvasRef.current && images.length > 0 && !recorderRef.current
EffectGuard(player, images) ==
    player.mounted /\ Len(images) > 0 /\ player.recorderRef = 0

\* the closure the effect body creates: recorder started, timer set, index 0
NewRun(id, inst, images) ==
    [id |-> id, inst |-> inst, images |-> images, currentImageIndex |-> 0,
     timer |-> TRUE, recorder |-> "recording", loaded |-> <<>>, ticks |-> 0,
     stops |-> 0, phases |-> <<"Idle", "Encoding">>]

\* useEffect(..., [images]) of the player of id, run with a new images array:
\* the pair <<players, runs>> it leaves
Effect(id, images, ps, rs) ==
    IF EffectGuard(ps[id], images)
    THEN <<[ps EXCEPT ![id].poster = images[1],
                      ![id].recorderRef = Len(rs) + 1],
           Append(rs, NewRun(id, ps[id].inst, images))>>
    ELSE <<ps, rs>>

\* React's reconciliation of the item of id after its message prop changed to
\* message: the video memo recomputes, the player is mounted, updated or
\* unmounted, and the effect runs when the player has a new images array
RenderItem(id, message, ps, rs) ==
    LET vc == videoComponent(message)
    IN  IF vc = Null
        THEN <<[ps EXCEPT ![id] = NoPlayer(ps[id].inst)], rs>>
        ELSE IF ~ps[id].mounted
        THEN Effect(id, vc.images,
                    [ps EXCEPT ![id] = [NoPlayer(ps[id].inst + 1)
                                          EXCEPT !.mounted = TRUE]], rs)
        ELSE Effect(id, vc.images, ps, rs)

\* ------------------------------------------------------------------- store
HasId(msgs, id) == \E i \in 1..Len(msgs) : IdOf(msgs[i]) = id

\* updater variants that get the upsert wrong
UpdaterAppendAlways(msgs, cur) == Append(msgs, cur)

UpdaterMoveToEnd(msgs, cur) ==
    Append(SelectSeq(msgs, LAMBDA m : IdOf(m) # IdOf(cur)), cur)

UpdaterKeepOld(msgs, cur) ==
    IF Len(SelectSeq(msgs, LAMBDA m : IdOf(m) = IdOf(cur))) > 0
    THEN msgs
    ELSE Append(msgs, cur)

UpdaterPrepend(msgs, cur) ==
    IF Len(SelectSeq(msgs, LAMBDA m : IdOf(m) = IdOf(cur))) > 0
    THEN [i \in 1..Len(msgs) |-> IF IdOf(msgs[i]) = IdOf(cur) THEN cur ELSE msgs[i]]
    ELSE <<cur>> \o msgs

\* the updater of the bot effect
BotUpdater(msgs, cur) ==
    IF Len(SelectSeq(msgs, LAMBDA m : IdOf(m) = IdOf(cur))) > 0
    THEN [i \in 1..Len(msgs) |-> IF IdOf(msgs[i]) = IdOf(cur) THEN cur ELSE msgs[i]]
    ELSE Append(msgs, cur)

\* the updater of the user effect
UserUpdater(msgs, cur) ==
    IF Len(SelectSeq(msgs, LAMBDA m : IdOf(m) = IdOf(cur))) > 0
    THEN [i \in 1..Len(msgs) |-> IF IdOf(msgs[i]) = IdOf(cur) THEN cur ELSE msgs[i]]
    ELSE Append(msgs, cur)

\* an updater whose result holds a fresh copy of every entry
RefreshedAll(msgs, cur) ==
    1..(Len(msgs) + 1)

\* the positions of the updater's result that hold another object than the
\* old array did: map returns cur for the entries of cur's id and m itself
\* for every other entry, and the spread keeps all entries and adds cur
Refreshed(msgs, cur) ==
    IF Len(SelectSeq(msgs, LAMBDA m : IdOf(m) = IdOf(cur))) > 0
    THEN {i \in 1..Len(msgs) : IdOf(msgs[i]) = IdOf(cur)}
    ELSE {Len(msgs) + 1}

\* the items of the new transcript rendered in order from position i on: an
\* item whose message prop is the object it had before keeps its memos and
\* the images array of its player, so only the items at the positions in
\* fresh recompute the video memo and run the player's effect
RECURSIVE RenderItems(_, _, _, _, _)
RenderItems(new, fresh, i, ps, rs) ==
    IF i > Len(new) THEN <<ps, rs>>
    ELSE IF i \in fresh
    THEN LET r == RenderItem(IdOf(new[i]), new[i], ps, rs)
         IN  RenderItems(new, fresh, i + 1, r[1], r[2])
    ELSE RenderItems(new, fresh, i + 1, ps, rs)

\* what a committed setMessages(updater) leaves: the new transcript, and the
\* items whose entry is a new object re-rendered with their message prop
Commit(cur, msgs) ==
    LET id == IdOf(cur)
        r == RenderItems(msgs, Refreshed(messages, cur), 1, players, runs)
    IN  /\ Len(r[2]) <= MaxRuns
        /\ messages' = msgs
        /\ players' = r[1]
        /\ runs' = r[2]
        /\ firstApplied' = IF \E i \in 1..Len(firstApplied) : firstApplied[i] = id
                           THEN firstApplied
                           ELSE Append(firstApplied, id)
        /\ lastApplied' = [lastApplied EXCEPT ![id] = cur]

Observed(m, stream) ==
    IF m = Null THEN latest
    ELSE [latest EXCEPT ![IdOf(m)] = [msg |-> m, from |-> @.from \cup {stream}]]

\* useEffect(..., [currentUserMessage]) after the context delivered m
UserEffect(m) ==
    /\ currentUserMessage' = m
    /\ latest' = Observed(m, "user")
    /\ IF m # Null
       THEN Commit(m, UserUpdater(messages, m))
       ELSE UNCHANGED <<messages, players, runs, firstApplied, lastApplied>>
    /\ UNCHANGED <<currentBotMessage, rafQueue>>

\* the bot effect without its null check
BotEffectNoGuard(m) ==
    /\ currentBotMessage' = m
    /\ latest' = Observed(m, "bot")
    /\ Len(rafQueue) < MaxRaf
    /\ rafQueue' = Append(rafQueue, m)
    /\ UNCHANGED <<currentUserMessage, messages, players, runs, firstApplied,
                   lastApplied>>

\* useEffect(..., [currentBotMessage]) after the context delivered m
BotEffect(m) ==
    /\ currentBotMessage' = m
    /\ latest' = Observed(m, "bot")
    /\ IF m # Null
       THEN /\ Len(rafQueue) < MaxRaf
            /\ rafQueue' = Append(rafQueue, m)
       ELSE UNCHANGED rafQueue
    /\ UNCHANGED <<currentUserMessage, messages, players, runs, firstApplied,
                   lastApplied>>

UserObserve(m) ==
    /\ m = Null => currentUserMessage # Null
    /\ UserEffect(m)
    /\ UNCHANGED <<streams, pos, item>>

BotObserve(m) ==
    /\ m = Null => currentBotMessage # Null
    /\ BotEffect(m)
    /\ UNCHANGED <<streams, pos, item>>

\* the browser runs the oldest pending animation-frame callback
AnimationFrame ==
    /\ rafQueue # <<>>
    /\ Commit(Head(rafQueue), BotUpdater(messages, Head(rafQueue)))
    /\ rafQueue' = Tail(rafQueue)
    /\ UNCHANGED <<currentUserMessage, currentBotMessage, latest, streams, pos, item>>

\* a callback that walks the frames from the last to the first
ImageAtReversed(run) ==
    IF run.currentImageIndex < Len(run.images)
    THEN run.images[Len(run.images) - run.currentImageIndex]
    ELSE Undefined

\* images[currentImageIndex] of a run (undefined past the end)
ImageAt(run) ==
    IF run.currentImageIndex < Len(run.images)
    THEN run.images[run.currentImageIndex + 1]
    ELSE Undefined

\* a callback that stops in the tick that loads the last frame
TickRunStopsEarly(run) ==
    LET done == run.currentImageIndex + 1 >= Len(run.images)
    IN  Logged([run EXCEPT
                  !.recorder = IF done THEN "stopping" ELSE @,
                  !.stops = IF done THEN @ + 1 ELSE @,
                  !.timer = ~done,
                  !.loaded = Append(@, ImageAt(run)),
                  !.currentImageIndex = @ + 1,
                  !.ticks = @ + 1])

\* a callback that signals the recorder and leaves its interval set
TickRunKeepsTimer(run) ==
    LET done == run.currentImageIndex >= Len(run.images)
    IN  Logged([run EXCEPT
                  !.recorder = IF done THEN "stopping" ELSE @,
                  !.stops = IF done THEN @ + 1 ELSE @,
                  !.loaded = Append(@, ImageAt(run)),
                  !.currentImageIndex = @ + 1,
                  !.ticks = @ + 1])

\* the run after one execution of the setInterval callback
TickRun(run) ==
    LET done == run.currentImageIndex >= Len(run.images)
    IN  Logged([run EXCEPT
                  !.recorder = IF done THEN "stopping" ELSE @,
                  !.stops = IF done THEN @ + 1 ELSE @,
                  !.timer = ~done,
                  !.loaded = Append(@, ImageAt(run)),
                  !.currentImageIndex = @ + 1,
                  !.ticks = @ + 1])

\* the interval timer of run r fires
Tick(r) ==
    /\ runs[r].timer
    /\ runs' = [runs EXCEPT ![r] = TickRun(runs[r])]
    /\ UNCHANGED <<messages, currentUserMessage, currentBotMessage, rafQueue,
                   players, firstApplied, lastApplied, latest, streams, pos, item>>

\* the player of a run's instance after recorder.onstop: setVideo(url) and
\* recorderRef.current = null (both lost when that instance is unmounted)
StopPlayer(player, run, r) ==
    IF player.mounted /\ player.inst = run.inst
    THEN [player EXCEPT !.video = r, !.recorderRef = 0]
    ELSE player

\* the recorder of run r dispatches its stop event
OnStop(r) ==
    /\ runs[r].recorder = "stopping"
    /\ runs' = [runs EXCEPT ![r] = Logged([@ EXCEPT !.recorder = "stopped"])]
    /\ players' = [players EXCEPT
                     ![runs[r].id] = StopPlayer(@, runs[r], r)]
    /\ UNCHANGED <<messages, currentUserMessage, currentBotMessage, rafQueue,
                   firstApplied, lastApplied, latest, streams, pos, item>>

NoItem == [message |-> Null, rendered |-> FALSE, textComponent |-> Null,
           videoComponent |-> Null, audioComponent |-> Null, started |-> <<>>,
           error |-> Null]

Init ==
    /\ messages = <<>>
    /\ currentUserMessage = Null
    /\ currentBotMessage = Null
    /\ rafQueue = <<>>
    /\ players = [id \in AllIds |-> NoPlayer(0)]
    /\ runs = <<>>
    /\ firstApplied = <<>>
    /\ lastApplied = [id \in AllIds |-> Null]
    /\ latest = [id \in AllIds |-> [msg |-> Null, from |-> {}]]
    /\ streams = [user |-> <<>>, bot |-> <<>>]
    /\ pos = [user |-> 0, bot |-> 0]
    /\ item = NoItem

\* the page with the camera on: one user message growing frame by frame
Next ==
    \/ \E m \in CameraSnapshots : UserObserve(m)
    \/ \E m \in CameraBotSnapshots : BotObserve(m)
    \/ AnimationFrame
    \/ \E r \in 1..Len(runs) : Tick(r)
    \/ \E r \in 1..Len(runs) : OnStop(r)

Spec == Init /\ [][Next]_vars

\* the timer of run r, once the run exists
TickOf(r) == r <= Len(runs) /\ Tick(r)

\* the stop event of the recorder of run r, once the run exists
StopOf(r) == r <= Len(runs) /\ OnStop(r)

\* the page under a scheduler that lets every set interval fire and delivers
\* every pending stop event
FairSpec ==
    /\ Spec
    /\ \A r \in 1..MaxRuns : WF_vars(TickOf(r)) /\ WF_vars(StopOf(r))

\* the page with the camera off: snapshots and nulls on both streams
StoreNext ==
    \/ \E m \in UserSnapshots \cup {Null} : UserObserve(m)
    \/ \E m \in BotSnapshots \cup {Null} : BotObserve(m)
    \/ AnimationFrame

StoreSpec == Init /\ [][StoreNext]_vars

\* -------------------------------------------------------- scripted streams
\* the non-empty sequences over S of length at most n
SeqsUpTo(S, n) == UNION {[1..k -> S] : k \in 1..n}

\* scripts of one origin: snapshots of one id, in delivery order
Scripts(S) ==
    {sc \in SeqsUpTo(S, MaxScript) : \A i \in 1..Len(sc) : IdOf(sc[i]) = IdOf(sc[1])}

\* the context delivers the next snapshot of the scripted user stream
ScriptUser ==
    /\ pos.user < Len(streams.user)
    /\ UserEffect(streams.user[pos.user + 1])
    /\ pos' = [pos EXCEPT !.user = @ + 1]
    /\ UNCHANGED <<streams, item>>

\* the context delivers the next snapshot of the scripted bot stream
ScriptBot ==
    /\ pos.bot < Len(streams.bot)
    /\ BotEffect(streams.bot[pos.bot + 1])
    /\ pos' = [pos EXCEPT !.bot = @ + 1]
    /\ UNCHANGED <<streams, item>>

\* two scripted streams whose ids do not collide
ScriptInit ==
    /\ messages = <<>>
    /\ currentUserMessage = Null
    /\ currentBotMessage = Null
    /\ rafQueue = <<>>
    /\ players = [id \in AllIds |-> NoPlayer(0)]
    /\ runs = <<>>
    /\ firstApplied = <<>>
    /\ lastApplied = [id \in AllIds |-> Null]
    /\ latest = [id \in AllIds |-> [msg |-> Null, from |-> {}]]
    /\ streams \in {[user |-> a, bot |-> b] :
                      a \in Scripts(UserSnapshots), b \in Scripts(BotSnapshots)}
    /\ IdOf(streams.user[1]) # IdOf(streams.bot[1])
    /\ pos = [user |-> 0, bot |-> 0]
    /\ item = NoItem

ScriptNext == ScriptUser \/ ScriptBot \/ AnimationFrame

ScriptSpec == ScriptInit /\ [][ScriptNext]_vars

\* ------------------------------------------------------ one item's renders
\* media chunks a RealtimeInput message can carry
MediaChunks ==
    {[mimeType |-> JpegMime, data |-> "f1"],
     [mimeType |-> JpegMime, data |-> ""],
     [mimeType |-> Pcm16Mime, data |-> "a1"],
     [mimeType |-> Pcm16Mime, data |-> "a2"],
     [mimeType |-> Pcm16Mime],
     [mimeType |-> Pcm24Mime, data |-> "b1"]}

\* parts a turn can carry
Parts ==
    {[text |-> "x"],
     [text |-> "y"],
     [text |-> ""],
     [inlineData |-> [mimeType |-> Pcm24Mime, data |-> "b1"]],
     [inlineData |-> [mimeType |-> Pcm24Mime, data |-> ""]],
     [inlineData |-> [mimeType |-> Pcm16Mime, data |-> "a1"]]}

\* every list over S of length at most MaxParts
Lists(S) == {<<>>} \cup SeqsUpTo(S, MaxParts)

\* message props a MessageItem can be rendered with
ItemMessages ==
    {Null}
    \cup {RealtimeInput("m1", cs) : cs \in Lists(MediaChunks)}
    \cup {ClientContent("m1", ps) : ps \in Lists(Parts)}
    \cup {ServerContent("m3", ps) : ps \in Lists(Parts)}
    \cup {[id |-> "m1", clientContent |-> [turnComplete |-> TRUE]],
          [id |-> "m3", serverContent |-> [turnComplete |-> TRUE]],
          [id |-> "m3", serverContent |-> [modelTurn |-> Null]],
          [id |-> "m3", serverContent |-> [modelTurn |-> UndefinedValue]]}

\* the runs started when a new MessageItem is rendered with message: the
\* VideoPlayer inside the video memo's Bubble, if any, mounts and its effect runs
FirstRender(message) ==
    IF IdOf(message) \notin AllIds THEN <<>>
    ELSE RenderItem(IdOf(message), message, [id \in AllIds |-> NoPlayer(0)], <<>>)[2]

\* the memos of MessageItem throw on message: the server branches are entered
\* on hasModelTurn, the text memo then reads modelTurn.parts.map, and the audio
\* memo reads base64s.length after modelTurn?.parts left base64s undefined
RenderThrows(message) ==
    /\ isServerMessage(message)
    /\ hasModelTurn(message.serverContent)
    /\ "parts" \notin DOMAIN message.serverContent.modelTurn

\* MessageItem rendered with message: its three memos, and the runs its
\* VideoPlayer starts; a memo that throws ends the render without output
Render(message) ==
    /\ item' = IF RenderThrows(message)
               THEN [NoItem EXCEPT !.message = message, !.error = TypeError]
               ELSE [message |-> message, rendered |-> TRUE,
                     textComponent |-> textComponent(message),
                     videoComponent |-> videoComponent(message),
                     audioComponent |-> audioComponent(message),
                     started |-> FirstRender(message),
                     error |-> Null]
    /\ UNCHANGED <<messages, currentUserMessage, currentBotMessage, rafQueue,
                   players, runs, firstApplied, lastApplied, latest, streams, pos>>

ViewNext == \E m \in ItemMessages : Render(m)

ViewSpec == Init /\ [][ViewNext]_vars

\* ============================================================== properties
\* ids of a transcript, in transcript order
TranscriptIds(msgs) == [i \in 1..Len(msgs) |-> IdOf(msgs[i])]

\* position of id in a transcript (0 when absent)
IndexOf(msgs, id) ==
    IF HasId(msgs, id) THEN CHOOSE i \in 1..Len(msgs) : IdOf(msgs[i]) = id ELSE 0

\* a step of the user effect that upserts m (camera off: no timers)
UserStep(m) ==
    /\ m # Null
    /\ currentUserMessage' = m
    /\ rafQueue' = rafQueue
    /\ currentBotMessage' = currentBotMessage

\* a step in which the animation-frame callback holding m runs
FrameStep(m) ==
    /\ rafQueue # <<>>
    /\ Head(rafQueue) = m
    /\ rafQueue' = Tail(rafQueue)

\* no deferred upsert is pending
Settled == rafQueue = <<>>

\* C1: under StoreSpec the transcript holds exactly one entry per id that has
\* been upserted, and the entries stand in the order in which their ids were
\* first upserted.
C1_IdUniqueFirstSeenOrder ==
    /\ TranscriptIds(messages) = firstApplied
    /\ \A i, j \in 1..Len(messages) :
         i # j => IdOf(messages[i]) # IdOf(messages[j])
    /\ \A id \in AllIds : HasId(messages, id) <=> lastApplied[id] # Null

\* a transcript of three ids, not in id order, one id upserted from both streams
C1_Witness ==
    /\ Len(messages) = 3
    /\ IdOf(messages[1]) = "m3"
    /\ latest["m2"].from = {"user", "bot"}
    /\ Settled

\* C2: under StoreSpec an upsert of a snapshot whose id is already in the
\* transcript puts the whole snapshot at that entry's index and changes
\* nothing else: same length, every other entry as before, no move to the end.
C2_ReplaceInPlace ==
    [][\A m \in UserSnapshots \cup BotSnapshots :
         ((UserStep(m) \/ FrameStep(m)) /\ HasId(messages, IdOf(m)))
            => messages' = [messages EXCEPT ![IndexOf(messages, IdOf(m))] = m]]_vars

\* the first of several entries holds a bot snapshot although the user stream
\* upserted its id: it was replaced where it stood
C2_Witness ==
    /\ Len(messages) >= 2
    /\ isServerMessage(messages[1])
    /\ "user" \in latest[IdOf(messages[1])].from
    /\ Settled

C3_Step ==
    LET a == TranscriptIds(messages)
        b == TranscriptIds(messages')
    IN  /\ \/ b = a
           \/ /\ Len(b) = Len(a) + 1
              /\ SubSeq(b, 1, Len(a)) = a
              /\ \A i \in 1..Len(a) : a[i] # b[Len(b)]
        /\ \A m \in UserSnapshots \cup BotSnapshots :
             ((UserStep(m) \/ FrameStep(m)) /\ ~HasId(messages, IdOf(m)))
                => messages' = Append(messages, m)

\* C3: under StoreSpec every step leaves the transcript's list of ids as it
\* was or extends it by one new id at the end; an upsert of an unseen id
\* appends the snapshot; nothing is removed or reordered.
C3_AppendOnly == [][C3_Step]_vars

\* three ids were appended and one entry was updated afterwards
C3_Witness ==
    /\ Len(messages) = 3
    /\ \E i \in 1..2 : messages[i] = ServerContent(IdOf(messages[i]), <<[text |-> "ok"]>>)
                       /\ latest[IdOf(messages[i])].from = {"user", "bot"}

\* both scripted streams are used up and every deferred upsert has run
ScriptDone ==
    /\ pos.user = Len(streams.user)
    /\ pos.bot = Len(streams.bot)
    /\ Settled

\* the last element of a non-empty sequence
Last(sq) == sq[Len(sq)]

\* C4: under ScriptSpec (two streams of disjoint ids, each delivered in its
\* own order, in any interleaving) the final transcript holds, for each
\* stream's id, that stream's last snapshot.
C4_OrderIndependent ==
    ScriptDone =>
        /\ Len(messages) = 2
        /\ messages[IndexOf(messages, IdOf(Last(streams.user)))] = Last(streams.user)
        /\ messages[IndexOf(messages, IdOf(Last(streams.bot)))] = Last(streams.bot)

\* the bot stream [A1, A2] on one id and the user stream [B1] on another have
\* been merged, the bot's id upserted first
C4_Witness ==
    /\ ScriptDone
    /\ Len(streams.bot) = 2
    /\ streams.bot[1] # streams.bot[2]
    /\ Len(streams.user) = 1
    /\ IdOf(messages[1]) = IdOf(streams.bot[1])

\* a step in which a stream that held a snapshot delivers null
NullStep ==
    \/ currentUserMessage # Null /\ currentUserMessage' = Null
    \/ currentBotMessage # Null /\ currentBotMessage' = Null

\* C5: under StoreSpec a null observation leaves the transcript as it was and
\* schedules nothing, and no transcript (nor pending upsert) holds a null.
C5_NullIsNoOp ==
    /\ [](\A i \in 1..Len(messages) : messages[i] # Null)
    /\ [](\A i \in 1..Len(rafQueue) : rafQueue[i] # Null)
    /\ [][NullStep => UNCHANGED <<messages, rafQueue, players, runs,
                                   firstApplied, lastApplied, latest>>]_vars

\* both streams delivered snapshots and then null, the transcript kept them
C5_Witness ==
    /\ currentUserMessage = Null
    /\ currentBotMessage = Null
    /\ Len(messages) = 2
    /\ \E id \in AllIds : "user" \in latest[id].from
    /\ \E id \in AllIds : "bot" \in latest[id].from

C7_UpsertIdempotent ==
    \A m \in UserSnapshots \cup BotSnapshots :
        /\ UserUpdater(UserUpdater(messages, m), m) = UserUpdater(messages, m)
        /\ BotUpdater(BotUpdater(messages, m), m) = BotUpdater(messages, m)

\* a transcript for which some snapshots replace and others append
C7_Witness ==
    /\ Len(messages) = 2
    /\ \E m \in UserSnapshots : HasId(messages, IdOf(m)) /\ messages[IndexOf(messages, IdOf(m))] # m
    /\ \E m \in BotSnapshots : ~HasId(messages, IdOf(m))

\* C8 as claimed: the audio artifact of a RealtimeInput message is built with
\* rate 16000, that of a ServerContent message with a model turn with 24000.
C8_AudioRateOfOrigin ==
    (item.rendered /\ item.audioComponent # Null) =>
        /\ isRealtimeInputMessage(item.message)
              => item.audioComponent.rate = 16000
        /\ (isServerMessage(item.message) /\ hasModelTurn(item.message.serverContent))
              => item.audioComponent.rate = 24000

Min(a, b) == IF a < b THEN a ELSE b

PhasesOfRun == <<"Idle", "Encoding", "Draining", "Finalizing", "Complete">>

\* C9 as claimed: a run on N frames has its timer stopped and its recorder
\* told to stop after exactly N ticks.
C9_StopsAfterNTicks ==
    \A r \in 1..Len(runs) :
        runs[r].recorder # "recording" => runs[r].ticks = Len(runs[r].images)

\* C9 amended: a run on N frames loads one frame in each of its first N
\* ticks; the tick after those, number N + 1, clears the timer and tells the
\* recorder to stop; the run passes Idle, Encoding, Draining, Finalizing,
\* Complete in that order.
C9_StopsAfterNPlusOneTicks ==
    \A r \in 1..Len(runs) :
        LET run == runs[r]
            N == Len(run.images)
        IN  /\ run.recorder = "recording" => run.timer /\ run.ticks <= N
            /\ run.recorder # "recording" => ~run.timer /\ run.ticks = N + 1
            /\ SubSeq(run.loaded, 1, Min(run.ticks, N))
                 = SubSeq(run.images, 1, Min(run.ticks, N))
            /\ run.phases = SubSeq(PhasesOfRun, 1, Len(run.phases))
            /\ run.phases[Len(run.phases)] = Phase(run)

\* a run on the longest frame sequence has completed
C9_Witness ==
    \E r \in 1..Len(runs) :
        /\ Len(runs[r].images) = MaxFrames
        /\ runs[r].phases = PhasesOfRun
        /\ players[runs[r].id].video = r

\* C10 as claimed: once the player of a message holds the artifact of a
\* completed run, no step starts another run for that message.
C10_CompleteIsTerminal ==
    [][\A id \in AllIds :
         (players[id].mounted /\ players[id].video # 0)
            => \A r \in 1..Len(runs') : r > Len(runs) => runs'[r].id # id]_vars

\* a run whose timer is set or whose recorder has not delivered its stop event
ActiveRun(run) == run.timer \/ run.recorder # "stopped"

\* C11 as claimed: in every state at most one run (timer and recorder) is
\* active per message id.
C11_OneActiveRunPerId ==
    \A id \in AllIds :
        Cardinality({r \in 1..Len(runs) : runs[r].id = id /\ ActiveRun(runs[r])}) <= 1

\* the concatenation of the text of the parts, in order, computed from the
\* left (an undefined text is dropped, as Array.prototype.join drops it)
RECURSIVE ConcatFrom(_, _)
ConcatFrom(parts, i) ==
    IF i > Len(parts) THEN ""
    ELSE (IF "text" \in DOMAIN parts[i] THEN parts[i].text ELSE "") \o ConcatFrom(parts, i + 1)

\* the parts of the first turn of a client message
FirstTurnParts(m) == m.clientContent.turns[1].parts

\* the item shown is a client message with a first turn
ClientItem ==
    /\ item.rendered
    /\ isClientMessage(item.message)
    /\ "turns" \in DOMAIN item.message.clientContent
    /\ Len(item.message.clientContent.turns) >= 1

\* C12 as claimed: text extraction of a client message yields the in-order
\* concatenation of the text of the parts of its first turn, and an empty
\* concatenation is a rendered (empty) text, never null.
C12_EmptyTextRendered ==
    ClientItem =>
        /\ item.textComponent # Null
        /\ item.textComponent.content = ConcatFrom(FirstTurnParts(item.message), 1)

\* C12, amended: text extraction of a client message yields the in-order
\* concatenation of the text of the parts of its first turn when that
\* concatenation is not empty, and null when it is empty.
C12_ClientTextInOrder ==
    ClientItem =>
        LET t == ConcatFrom(FirstTurnParts(item.message), 1) IN
        IF t = "" THEN item.textComponent = Null
        ELSE item.textComponent # Null /\ item.textComponent.content = t

\* a client message of two different non-empty texts has been rendered
C12_Witness ==
    /\ ClientItem
    /\ Len(FirstTurnParts(item.message)) = 2
    /\ item.textComponent # Null
    /\ item.textComponent.content = "xy"

\* the item shown is a server message with a model turn that has parts
ServerItem ==
    /\ item.rendered
    /\ isServerMessage(item.message)
    /\ hasModelTurn(item.message.serverContent)
    /\ "parts" \in DOMAIN item.message.serverContent.modelTurn

\* the parts of the model turn of the item shown
TurnParts == item.message.serverContent.modelTurn.parts

\* C13 as claimed: a model turn with no parts yields the pending state and
\* not an empty text, while a model turn of one part with text "" yields an
\* empty-string text result that is neither pending nor absent.
C13_EmptyTextIsAResult ==
    ServerItem =>
        /\ TurnParts = <<>> =>
              item.textComponent # Null /\ item.textComponent.loading
        /\ TurnParts = <<[text |-> ""]>> =>
              /\ item.textComponent # Null
              /\ ~item.textComponent.loading
              /\ item.textComponent.content = ""

\* C13, amended: a model turn with no parts yields the pending state, and a
\* model turn of one part with text "" yields no text result at all (null),
\* which is not the pending state; a text result that is shown without being
\* pending is never empty.
C13_PendingOnlyWhenNoParts ==
    ServerItem =>
        /\ TurnParts = <<>> =>
              item.textComponent # Null /\ item.textComponent.loading
        /\ TurnParts = <<[text |-> ""]>> => item.textComponent = Null
        /\ item.textComponent # Null =>
              /\ item.textComponent.loading <=> TurnParts = <<>>
              /\ ~item.textComponent.loading => item.textComponent.content # ""

\* a model turn whose only part has the text "" has been rendered
C13_Witness ==
    ServerItem /\ TurnParts = <<[text |-> ""]>> /\ item.textComponent = Null

\* the data of the payloads from position i on that are of the given MIME
\* type and not empty, in their original order; a payload is the record
\* holding mimeType and data, or Null where the entry carries none
RECURSIVE PayloadsFrom(_, _, _)
PayloadsFrom(payloads, i, mime) ==
    IF i > Len(payloads) THEN <<>>
    ELSE LET p == payloads[i]
             hit == /\ p # Null
                    /\ "mimeType" \in DOMAIN p /\ p.mimeType = mime
                    /\ "data" \in DOMAIN p /\ p.data # ""
         IN  (IF hit THEN <<p.data>> ELSE <<>>) \o PayloadsFrom(payloads, i + 1, mime)

\* a media chunk is its own payload
ChunkPayloads(chunks) == chunks

\* the payload of a part is its inline data, if it has any
PartPayloads(parts) ==
    [i \in 1..Len(parts) |->
        IF "inlineData" \in DOMAIN parts[i] THEN parts[i].inlineData ELSE Null]

\* C14: the audio payloads selected for a realtime input message are the
\* subsequence, in original order, of its chunks of type audio/pcm;rate=16000
\* with non-empty data; for a server message with a model turn they are the
\* in-order subsequence of its parts whose inline data is of type
\* audio/pcm;rate=24000 with non-empty data; an empty selection, and every
\* client message, yields null.
C14_AudioSelection ==
    item.rendered =>
        /\ isRealtimeInputMessage(item.message) =>
              LET want == PayloadsFrom(ChunkPayloads(item.message.realtimeInput.mediaChunks),
                                       1, Pcm16Mime)
              IN  IF want = <<>> THEN item.audioComponent = Null
                  ELSE item.audioComponent # Null /\ item.audioComponent.base64s = want
        /\ ServerItem =>
              LET want == PayloadsFrom(PartPayloads(TurnParts), 1, Pcm24Mime)
              IN  IF want = <<>> THEN item.audioComponent = Null
                  ELSE item.audioComponent # Null /\ item.audioComponent.base64s = want
        /\ isClientMessage(item.message) => item.audioComponent = Null

\* a realtime input whose two audio chunks are selected in the order received
C14_Witness ==
    /\ item.rendered
    /\ isRealtimeInputMessage(item.message)
    /\ item.audioComponent # Null
    /\ item.audioComponent.base64s = <<"a2", "a1">>

\* message is a realtime input with at least one JPEG chunk that has data
HasJpegFrame(message) ==
    /\ isRealtimeInputMessage(message)
    /\ \E i \in 1..Len(message.realtimeInput.mediaChunks) :
          LET c == message.realtimeInput.mediaChunks[i]
          IN  /\ "mimeType" \in DOMAIN c /\ c.mimeType = JpegMime
              /\ "data" \in DOMAIN c /\ c.data # ""

\* C15: a timer and an encoder are started only for a realtime input message
\* with at least one image/jpeg chunk that has data; for null, a client
\* message, a server message and a realtime input without such a chunk the
\* video result is null and nothing is started.
C15_VideoOnlyForJpegInput ==
    item.rendered =>
        /\ item.started # <<>> => HasJpegFrame(item.message)
        /\ ~HasJpegFrame(item.message) =>
              item.videoComponent = Null /\ item.started = <<>>
        /\ \A r \in 1..Len(item.started) :
              item.started[r].timer /\ item.started[r].recorder = "recording"

\* a realtime input with a JPEG chunk without data and a JPEG chunk with data
\* was rendered and started one run on the one frame that has data
C15_Witness ==
    /\ item.rendered
    /\ isRealtimeInputMessage(item.message)
    /\ item.message.realtimeInput.mediaChunks
          = <<[mimeType |-> JpegMime, data |-> ""], [mimeType |-> JpegMime, data |-> "f1"]>>
    /\ Len(item.started) = 1
    /\ item.started[1].images = <<DataUrl([data |-> "f1"])>>

\* C17 as claimed: the classifiers and the views built on them return a
\* result for every message value, whether its model turn is absent, null or
\* present without a value: rendering a message never throws.
C17_ViewsAreTotal ==
    item.error = Null

\* the player that started run r is still mounted
PlayerOf(r) == players[runs[r].id]
Attached(r) == PlayerOf(r).mounted /\ PlayerOf(r).inst = runs[r].inst

\* C16 as claimed: from the start of a run until its finalization resolves,
\* the poster is the first frame of the run's sequence and no video artifact
\* is exposed for the message.
C16_PosterOnlyUntilFinalized ==
    \A r \in 1..Len(runs) :
        (Attached(r) /\ runs[r].recorder # "stopped") =>
            /\ PlayerOf(r).poster = runs[r].images[1]
            /\ PlayerOf(r).video = 0

\* the same, for the first run of each player only
C16_FirstRunPosterOnly ==
    \A r \in 1..Len(runs) :
        (Attached(r) /\ runs[r].recorder # "stopped"
           /\ ~\E q \in 1..(r - 1) : runs[q].id = runs[r].id /\ runs[q].inst = runs[r].inst) =>
            /\ PlayerOf(r).poster = runs[r].images[1]
            /\ PlayerOf(r).video = 0

\* the frames run has handed to its image element before recorder.stop()
LoadedBeforeStop(run) == SubSeq(run.loaded, 1, Min(Len(run.loaded), Len(run.images)))

\* C18: the frames a run loads before its encoder is signalled to finalize
\* are the frames of the sequence it was started with, in order, one per timer
\* tick and each once; the sequence of a run never changes, so frames of
\* snapshots that arrive during the run are not drawn by it.
C18_LoadsOwnFramesInOrder ==
    /\ [](\A r \in 1..Len(runs) :
            LET run == runs[r]
            IN  /\ run.recorder = "recording" =>
                      /\ run.ticks <= Len(run.images)
                      /\ run.loaded = SubSeq(run.images, 1, run.ticks)
                /\ run.recorder # "recording" =>
                      /\ run.ticks = Len(run.images) + 1
                      /\ LoadedBeforeStop(run) = run.images
                      /\ run.loaded = run.images \o <<Undefined>>)
    /\ [][\A r \in 1..Len(runs) : runs'[r].images = runs[r].images]_vars

\* a run of two frames or more has finished loading its own frames although
\* the message carries a longer frame sequence by now
C18_Witness ==
    \E r \in 1..Len(runs) :
        /\ runs[r].recorder # "recording"
        /\ Len(runs[r].images) >= 2
        /\ LoadedBeforeStop(runs[r]) = runs[r].images
        /\ Attached(r)
        /\ Len(VideoImages(lastApplied[runs[r].id])) > Len(runs[r].images)

\* C20: in each run recorder.stop() is called exactly once, the interval is
\* cleared in the tick that calls it, no tick of the run fires afterwards, and
\* the player's recorderRef holds the run's recorder from the start of the run
\* until its stop handler has run.
C20_StopOnceAndGuardHeld ==
    /\ [](\A r \in 1..Len(runs) :
            /\ runs[r].timer <=> runs[r].recorder = "recording"
            /\ runs[r].stops = IF runs[r].recorder = "recording" THEN 0 ELSE 1
            /\ (Attached(r) /\ runs[r].recorder # "stopped") => PlayerOf(r).recorderRef = r)
    /\ [][\A r \in 1..Len(runs) :
            runs[r].recorder # "recording" =>
                /\ runs'[r].ticks = runs[r].ticks
                /\ runs'[r].stops = runs[r].stops]_vars

\* a run has signalled its recorder once, its timer is cleared and its stop
\* handler has not run yet: the guard of its player is still set
C20_Witness ==
    \E r \in 1..Len(runs) :
        /\ runs[r].recorder = "stopping"
        /\ runs[r].stops = 1
        /\ ~runs[r].timer
        /\ Attached(r)
        /\ PlayerOf(r).recorderRef = r

C19_EveryRunStops ==
    \A r \in 1..MaxRuns :
        (Len(runs) >= r) ~>
            (Len(runs) >= r /\ ~runs[r].timer /\ runs[r].recorder = "stopped")

\* the entry, the player and the runs of every other id are the same after
\* the step as before it, and no run was started for another id
OthersUntouched(id) ==
    /\ \A i \in 1..Len(messages) :
          IdOf(messages[i]) # id => (i <= Len(messages') /\ messages'[i] = messages[i])
    /\ \A o \in AllIds \ {id} : players'[o] = players[o]
    /\ \A r \in 1..Len(runs') :
          runs'[r].id # id => (r <= Len(runs) /\ runs'[r] = runs[r])

\* a step that upserts a snapshot (the user effect applying it, or the
\* animation-frame callback applying the model's) leaves every other id alone
C21_Step ==
    /\ \A m \in CameraSnapshots :
          (currentUserMessage' = m /\ UserObserve(m)) => OthersUntouched(IdOf(m))
    /\ (rafQueue # <<>> /\ rafQueue' = Tail(rafQueue) /\ AnimationFrame)
          => OthersUntouched(IdOf(Head(rafQueue)))

\* C21: an upsert for one message id leaves the entries of every other id
\* the objects they were, and never starts, restarts or changes the video
\* pipeline (guard, cursor, poster, artifact, runs) of another id's entry.
C21_UpsertLeavesOthersAlone == [][C21_Step]_vars

\* the model's snapshot was upserted next to a user entry whose only run is
\* complete, its player mounted with the artifact set and the guard released:
\* re-triggering that player's effect would start a second run
C21_Witness ==
    /\ firstApplied = <<"m1", "m3">>
    /\ lastApplied["m3"] # Null
    /\ Len(runs) = 1
    /\ runs[1].id = "m1"
    /\ runs[1].recorder = "stopped"
    /\ players["m1"].mounted
    /\ players["m1"].video = 1
    /\ players["m1"].recorderRef = 0

====
